---- MODULE Spec2Model ----
(***************************************************************************)
(* Model of notebook-converter's OCR grouping core                         *)
(* (src/core/ocr_processor.py): OCRProcessor.extract_text_blocks and the   *)
(* pure stages it drives, _extract_words, _group_into_lines,               *)
(* _group_into_paragraphs and _merge_lines_to_block; and of the page loop  *)
(* of ConversionWorker._process (src/ui/views/home_view.py) that calls it  *)
(* and SlideBuilder.add_slide (src/core/slide_builder.py) for every page.  *)
(*                                                                         *)
(* Conventions                                                             *)
(*  - a text is a sequence of one-character strings;                       *)
(*  - Python lists are sequences (index i of the code is i+1 here);        *)
(*  - the OCR engine's dictionary is a record of equally indexed columns;  *)
(*  - a float that is a quotient of integers is kept exact: the paragraph  *)
(*    threshold is compared by cross-multiplication, and a block's         *)
(*    confidence is a reduced fraction [num, den].                         *)
(***************************************************************************)
EXTENDS Integers, Sequences, FiniteSets

VARIABLES
    image,       \* the page image, as the detections the engine reads off it
    stop_event,  \* threading.Event: TRUE once set
    pc,          \* position of extract_text_blocks
    ocr_data,    \* pytesseract.image_to_data(...) result (record of columns)
    words,       \* _extract_words(ocr_data)
    lines,       \* _group_into_lines(words)
    blocks,      \* the value extract_text_blocks returns
    ocr_runs,    \* the calls of image_to_data so far: <<page_num, outcome>>
    images,      \* convert_from_path(...): the pages of the document
    page_num,    \* "page_num = i + 1" of the page loop
    wpc,         \* position of ConversionWorker._process
    slides,      \* builder.prs.slides: per slide, the text boxes placed
    next_block,  \* position of add_slide's "for block in text_blocks"
    saved,       \* builder.save(output_path) has written the file
    call,        \* the last call of a function of geometry.py: [fn, args]
    ret,         \* what that call did: [raised, value], value a tuple
    published,   \* the statuses sent on the "status" topic, in order
    thread2,     \* position of the thread of a second start()
    extracted,   \* _extract_words has returned in this call
    stop_pc      \* position of a call of ConversionWorker.stop

extract_vars ==
    <<image, pc, ocr_data, words, lines, blocks, ocr_runs, extracted>>

worker_vars == <<images, page_num, wpc, slides, next_block, saved>>

geometry_vars == <<call, ret>>

process_vars == <<published, thread2, stop_pc>>

vars == <<stop_event, extract_vars, worker_vars, geometry_vars, process_vars>>

----------------------------------------------------------------------------
(* Program constants.                                                      *)

OCR_CONFIDENCE_THRESHOLD == 40

LINE_MERGE_THRESHOLD_PX == 10

\* PARAGRAPH_GAP_MULTIPLIER = 1.5, kept as the exact quotient 3/2.
PARAGRAPH_GAP_MULTIPLIER_NUM == 3

PARAGRAPH_GAP_MULTIPLIER_DEN == 2

----------------------------------------------------------------------------
(* Bounds of the model.                                                    *)

\* Largest number of detection records on a page.
MaxWords == 3

----------------------------------------------------------------------------
(* Generic helpers (Python built-ins).                                     *)

Abs(x) == IF x < 0 THEN -x ELSE x

SetMin(S) == CHOOSE x \in S : \A y \in S : x <= y

SetMax(S) == CHOOSE x \in S : \A y \in S : x >= y

Front(s) == SubSeq(s, 1, Len(s) - 1)

Last(s) == s[Len(s)]

RECURSIVE SeqSum(_)
SeqSum(s) == IF s = <<>> THEN 0 ELSE Head(s) + SeqSum(Tail(s))

RECURSIVE Flatten(_)
Flatten(ss) == IF ss = <<>> THEN <<>> ELSE Head(ss) \o Flatten(Tail(ss))

RECURSIVE Gcd(_, _)
Gcd(a, b) == IF b = 0 THEN a ELSE Gcd(b, a % b)

\* The exact value of the float num / den (den > 0), as a reduced fraction.
Quotient(num, den) ==
    LET g == Gcd(Abs(num), den)
    IN  [num |-> num \div g, den |-> den \div g]

\* Characters str.strip() removes: those for which str.isspace() is true.
\* First line: space, tab, line feed, carriage return, form feed.  Second
\* line, written as the characters themselves: U+000B, U+001C, U+001D,
\* U+001E, U+001F, U+0085, U+00A0, U+1680.  The remaining sixteen (U+2000 to
\* U+200A, U+2028, U+2029, U+202F, U+205F, U+3000) cannot stand in a string
\* of the model.
Whitespace ==
    {" ", "\t", "\n", "\r", "\f",
     "", "", "", "", "", "", " ", " "}

RECURSIVE LStrip(_)
LStrip(s) ==
    IF s # <<>> /\ Head(s) \in Whitespace THEN LStrip(Tail(s)) ELSE s

RECURSIVE RStrip(_)
RStrip(s) ==
    IF s # <<>> /\ Last(s) \in Whitespace THEN RStrip(Front(s)) ELSE s

\* str.strip()
Strip(s) == RStrip(LStrip(s))

----------------------------------------------------------------------------
(* _extract_words                                                          *)

\* "if not text: continue"
EmptyText(text) == text = <<>>

\* "if conf < 0: continue" (the -1 of structural rows)
StructuralConf(conf) == conf < 0

LowConfidence_AtOrBelow(conf) == conf <= OCR_CONFIDENCE_THRESHOLD

\* "if conf < OCR_CONFIDENCE_THRESHOLD: continue"
LowConfidence(conf) == conf < OCR_CONFIDENCE_THRESHOLD

\* The dictionary appended for record i.
WordAt(data, i, text, conf) ==
    [text   |-> text,
     left   |-> data.left[i],
     top    |-> data.top[i],
     width  |-> data.width[i],
     height |-> data.height[i],
     conf   |-> conf]

\* The loop "for i in range(n_boxes)", from record i on, acc = words so far.
RECURSIVE ExtractFrom(_, _, _)
ExtractFrom(data, i, acc) ==
    IF i > Len(data.text) THEN acc
    ELSE LET text == Strip(data.text[i])
         IN  IF EmptyText(text) THEN ExtractFrom(data, i + 1, acc)
             ELSE LET conf == data.conf[i]
                  IN  IF StructuralConf(conf)
                        THEN ExtractFrom(data, i + 1, acc)
                      ELSE IF LowConfidence(conf)
                        THEN ExtractFrom(data, i + 1, acc)
                      ELSE ExtractFrom(data, i + 1,
                                       Append(acc, WordAt(data, i, text, conf)))

ExtractWords(data) == ExtractFrom(data, 1, <<>>)

\* ocr_data["conf"][i] has no entry: KeyError (no such column, modelled as
\* a column of length 0) or IndexError (column shorter than "text").
ConfMissing(data, i) == i > Len(data.conf)

\* One of ocr_data["left"|"top"|"width"|"height"][i] has no entry.
BoxMissing(data, i) ==
    \/ i > Len(data.left)
    \/ i > Len(data.top)
    \/ i > Len(data.width)
    \/ i > Len(data.height)

\* Record i makes the loop body raise: its text is kept, and either its
\* confidence cannot be read or it passes both confidence tests and a
\* coordinate cannot be read. Nothing in _extract_words catches it.
RowRaises(data, i) ==
    /\ ~EmptyText(Strip(data.text[i]))
    /\ \/ ConfMissing(data, i)
       \/ /\ ~StructuralConf(data.conf[i])
          /\ ~LowConfidence(data.conf[i])
          /\ BoxMissing(data, i)

\* _extract_words(data) ends in an exception instead of returning.
ExtractRaises(data) == \E i \in 1..Len(data.text) : RowRaises(data, i)

----------------------------------------------------------------------------
(* _group_into_lines                                                       *)

\* Order of the key of "sorted(words, key=lambda w: (w["top"], w["left"]))".
TopLeftLess(a, b) ==
    \/ a.top < b.top
    \/ a.top = b.top /\ a.left < b.left

\* Order of the key of "current_line.sort(key=lambda w: w["left"])".
LeftLess(a, b) == a.left < b.left

\* Where x goes in the sorted s: before the first element whose key is
\* greater, hence after every element of equal key (Python's sort is stable).
InsertPosTopLeft(s, x) ==
    SetMin({i \in 1..(Len(s) + 1) : i = Len(s) + 1 \/ TopLeftLess(x, s[i])})

InsertPosLeft(s, x) ==
    SetMin({i \in 1..(Len(s) + 1) : i = Len(s) + 1 \/ LeftLess(x, s[i])})

InsertAt(s, p, x) == SubSeq(s, 1, p - 1) \o <<x>> \o SubSeq(s, p, Len(s))

SortByLeft_Unsorted(line) == line

\* list.sort(key=left): stable, ascending.
RECURSIVE SortByLeft(_)
SortByLeft(line) ==
    IF line = <<>> THEN <<>>
    ELSE LET s == SortByLeft(Front(line))
         IN  InsertAt(s, InsertPosLeft(s, Last(line)), Last(line))

SortByTopLeft_Unsorted(ws) == ws

SortByTopLeft_LeftOnly(ws) == SortByLeft(ws)

\* sorted(words, key=(top, left)): stable, ascending.
RECURSIVE SortByTopLeft(_)
SortByTopLeft(ws) ==
    IF ws = <<>> THEN <<>>
    ELSE LET s == SortByTopLeft(Front(ws))
         IN  InsertAt(s, InsertPosTopLeft(s, Last(ws)), Last(ws))

SameLine_AtOrBelow(word, current_y) ==
    Abs(word.top - current_y) <= LINE_MERGE_THRESHOLD_PX

\* "y_diff = abs(word["top"] - current_y); if y_diff < LINE_MERGE_THRESHOLD_PX"
SameLine(word, current_y) ==
    Abs(word.top - current_y) < LINE_MERGE_THRESHOLD_PX

\* "current_line.sort(key=left); lines.append(current_line)"
CloseLine(ls, current_line) == Append(ls, SortByLeft(current_line))

LastLine_Forgotten(ls, current_line) == ls

\* "Don't forget the last line": "if current_line:" sort it and append it.
LastLine(ls, current_line) ==
    IF current_line # <<>> THEN CloseLine(ls, current_line) ELSE ls

\* The loop "for word in sorted_words[1:]" from word i on, and the closing of
\* the last line after it.
RECURSIVE LineWalk(_, _, _, _, _)
LineWalk(sorted_words, i, current_line, current_y, ls) ==
    IF i > Len(sorted_words) THEN LastLine(ls, current_line)
    ELSE LET word == sorted_words[i]
         IN  IF SameLine(word, current_y)
               THEN LineWalk(sorted_words, i + 1,
                             Append(current_line, word), current_y, ls)
               ELSE LineWalk(sorted_words, i + 1,
                             <<word>>, word.top, CloseLine(ls, current_line))

GroupIntoLines(ws) ==
    IF ws = <<>> THEN <<>>
    ELSE LET sorted_words == SortByTopLeft(ws)
         IN  LineWalk(sorted_words, 2,
                      <<sorted_words[1]>>, sorted_words[1].top, <<>>)

----------------------------------------------------------------------------
(* _merge_lines_to_block                                                   *)

\* sep.join(parts)
RECURSIVE Join(_, _)
Join(parts, sep) ==
    IF parts = <<>> THEN <<>>
    ELSE IF Len(parts) = 1 THEN parts[1]
    ELSE parts[1] \o sep \o Join(Tail(parts), sep)

LineText_TwoSpaces(line) ==
    Join([i \in 1..Len(line) |-> line[i].text], <<" ", " ">>)

\* " ".join(w["text"] for w in line)
LineText(line) == Join([i \in 1..Len(line) |-> line[i].text], <<" ">>)

\* "\n".join(text_lines)
BlockText(ls) == Join([i \in 1..Len(ls) |-> LineText(ls[i])], <<"\n">>)

Range(s) == {s[i] : i \in 1..Len(s)}

BoundingBox_SizesAdded(all_words) ==
    [left   |-> SetMin({w.left : w \in Range(all_words)}),
     top    |-> SetMin({w.top : w \in Range(all_words)}),
     right  |-> SetMax({w.left : w \in Range(all_words)})
                  + SetMax({w.width : w \in Range(all_words)}),
     bottom |-> SetMax({w.top : w \in Range(all_words)})
                  + SetMax({w.height : w \in Range(all_words)})]

\* left, top, right, bottom of "Calculate bounding box"
BoundingBox(all_words) ==
    [left   |-> SetMin({w.left : w \in Range(all_words)}),
     top    |-> SetMin({w.top : w \in Range(all_words)}),
     right  |-> SetMax({w.left + w.width : w \in Range(all_words)}),
     bottom |-> SetMax({w.top + w.height : w \in Range(all_words)})]

\* sum(w["conf"] for w in all_words) / len(all_words)
AvgConf(all_words) ==
    Quotient(SeqSum([i \in 1..Len(all_words) |-> all_words[i].conf]),
             Len(all_words))

\* The sum of the per-line mean confidences, as a fraction.
RECURSIVE C12_SumOfLineMeans(_)
C12_SumOfLineMeans(ls) ==
    IF ls = <<>> THEN Quotient(0, 1)
    ELSE LET m    == AvgConf(ls[1])
             rest == C12_SumOfLineMeans(Tail(ls))
         IN  Quotient(m.num * rest.den + rest.num * m.den, m.den * rest.den)

MergeLinesToBlock_MeanOfMeans(ls) ==
    LET all_words == Flatten(ls)
        box       == BoundingBox(all_words)
        total     == C12_SumOfLineMeans(ls)
    IN  [text       |-> BlockText(ls),
         left       |-> box.left,
         top        |-> box.top,
         width      |-> box.right - box.left,
         height     |-> box.bottom - box.top,
         confidence |-> Quotient(total.num, total.den * Len(ls))]

\* "return TextBlock(text=..., left=..., top=..., width=..., height=...,
\* confidence=avg_conf)"
MergeLinesToBlock(ls) ==
    LET all_words == Flatten(ls)
        box       == BoundingBox(all_words)
    IN  [text       |-> BlockText(ls),
         left       |-> box.left,
         top        |-> box.top,
         width      |-> box.right - box.left,
         height     |-> box.bottom - box.top,
         confidence |-> AvgConf(all_words)]

----------------------------------------------------------------------------
(* _group_into_paragraphs                                                  *)

\* sum(w["height"] for w in prev_line); avg_height is this over len(prev_line)
SumHeight(prev_line) ==
    SeqSum([i \in 1..Len(prev_line) |-> prev_line[i].height])

\* prev_bottom = max(w["top"] + w["height"] for w in prev_line)
PrevBottom(prev_line) == SetMax({w.top + w.height : w \in Range(prev_line)})

\* curr_top = min(w["top"] for w in curr_line)
CurrTop(curr_line) == SetMin({w.top : w \in Range(curr_line)})

\* gap = curr_top - prev_bottom
Gap(prev_line, curr_line) == CurrTop(curr_line) - PrevBottom(prev_line)

SameParagraph_AtOrBelow(prev_line, curr_line) ==
    Gap(prev_line, curr_line) * Len(prev_line) * PARAGRAPH_GAP_MULTIPLIER_DEN
        <= SumHeight(prev_line) * PARAGRAPH_GAP_MULTIPLIER_NUM

SameParagraph_GapNotNegative(prev_line, curr_line) ==
    /\ Gap(prev_line, curr_line) >= 0
    /\ Gap(prev_line, curr_line) * Len(prev_line) * PARAGRAPH_GAP_MULTIPLIER_DEN
         < SumHeight(prev_line) * PARAGRAPH_GAP_MULTIPLIER_NUM

\* "gap < threshold" with threshold = (sum / len) * 1.5.  For an integer gap
\* and integer heights this is gap * len * 2 < sum * 3: the floats the code
\* computes decide the comparison as the exact quotient does (compared for
\* every len <= 8, sum < 400 and gap in -5..700).
SameParagraph(prev_line, curr_line) ==
    Gap(prev_line, curr_line) * Len(prev_line) * PARAGRAPH_GAP_MULTIPLIER_DEN
        < SumHeight(prev_line) * PARAGRAPH_GAP_MULTIPLIER_NUM

\* "paragraphs.append(self._merge_lines_to_block(current_paragraph_lines))"
CloseParagraph(paragraphs, current_paragraph_lines) ==
    Append(paragraphs, MergeLinesToBlock(current_paragraph_lines))

LastParagraph_Forgotten(paragraphs, current_paragraph_lines) == paragraphs

\* "Don't forget the last paragraph": "if current_paragraph_lines:" merge it.
LastParagraph(paragraphs, current_paragraph_lines) ==
    IF current_paragraph_lines # <<>>
      THEN CloseParagraph(paragraphs, current_paragraph_lines)
      ELSE paragraphs

\* The loop "for i in range(1, len(lines))" from line i on, and the closing
\* of the last paragraph after it.
RECURSIVE ParagraphWalk(_, _, _, _)
ParagraphWalk(ls, i, current_paragraph_lines, paragraphs) ==
    IF i > Len(ls) THEN LastParagraph(paragraphs, current_paragraph_lines)
    ELSE IF SameParagraph(ls[i - 1], ls[i])
           THEN ParagraphWalk(ls, i + 1,
                              Append(current_paragraph_lines, ls[i]),
                              paragraphs)
           ELSE ParagraphWalk(ls, i + 1, <<ls[i]>>,
                              CloseParagraph(paragraphs,
                                             current_paragraph_lines))

GroupIntoParagraphs(ls) ==
    IF ls = <<>> THEN <<>>
    ELSE ParagraphWalk(ls, 2, <<ls[1]>>, <<>>)

----------------------------------------------------------------------------
(* Pages: what the OCR engine reads off an image.  A detection is a record *)
(* of the engine's row (text, box, confidence); a page is a sequence of at *)
(* most MaxWords detections of one of three families.                      *)

Hello == <<"H", "e", "l", "l", "o">>

World == <<"W", "o", "r", "l", "d">>

Detection(text, left, top, width, height, conf) ==
    [text |-> text, left |-> left, top |-> top,
     width |-> width, height |-> height, conf |-> conf]

\* Two columns of equally sized words whose tops lie around the line
\* threshold: 0 and 2 (one line), 0 and 9 (one line), 0 and 10 (two lines),
\* 0, 9, 18 (a drifting chain).
LineTops == {0, 2, 9, 10, 18}

LineDetections ==
    {Detection(IF l = 0 THEN Hello ELSE World, l, t, 50, 20,
               IF l = 0 THEN 90 ELSE 88) : l \in {0, 60}, t \in LineTops}

\* Words 10 or 20 high whose tops put the gap to a line at top 0 below, at
\* and above one and a half line heights; the left word is the wider one.
ParagraphTops == {0, 40, 50, 60}

ParagraphDetections ==
    {Detection(IF l = 0 THEN Hello ELSE World, l, t,
               IF l = 0 THEN 120 ELSE 50, h,
               IF l = 0 THEN 90 ELSE 60) :
        l \in {0, 60}, t \in ParagraphTops, h \in {10, 20}}

\* Rows as the engine emits them: blank and padded texts, the structural
\* confidence -1 and confidences around the threshold.
RawTexts ==
    {<<>>, <<" ", "\f">>, <<"\f", "H", "i", "\n">>, <<"a", " ", "b">>}

RawConfs == {-1, 39, 40, 90}

FilterDetections ==
    {Detection(x, IF c = 90 THEN 60 ELSE 0, IF c = 90 THEN 2 ELSE 0, 50, 20, c) :
        x \in RawTexts, c \in RawConfs}

SeqsUpTo(S, n) == UNION {[1..k -> S] : k \in 0..n}

Pages ==
    SeqsUpTo(LineDetections, MaxWords)
        \cup SeqsUpTo(ParagraphDetections, MaxWords)
        \cup SeqsUpTo(FilterDetections, MaxWords)

\* pytesseract.image_to_data(..., output_type=Output.DICT): one list per
\* column, row i of the page at index i of each.
ImageToData(page) ==
    [text   |-> [i \in 1..Len(page) |-> page[i].text],
     conf   |-> [i \in 1..Len(page) |-> page[i].conf],
     left   |-> [i \in 1..Len(page) |-> page[i].left],
     top    |-> [i \in 1..Len(page) |-> page[i].top],
     width  |-> [i \in 1..Len(page) |-> page[i].width],
     height |-> [i \in 1..Len(page) |-> page[i].height]]

----------------------------------------------------------------------------
(* extract_text_blocks(image, stop_event), and a caller's stop_event.set(). *)

\* No function of geometry.py has been called.
NoGeometryCall ==
    /\ call = [fn |-> "none", args |-> <<>>]
    /\ ret = [raised |-> FALSE, value |-> <<>>]

\* One call of extract_text_blocks, made by the page loop for the only page
\* of a one-page document.
Init ==
    /\ image \in Pages
    /\ stop_event = FALSE
    /\ pc = "check_start"
    /\ ocr_data = ImageToData(<<>>)
    /\ words = <<>>
    /\ lines = <<>>
    /\ blocks = <<>>
    /\ ocr_runs = <<>>
    /\ images = <<image>>
    /\ page_num = 1
    /\ wpc = "extract"
    /\ slides = <<>>
    /\ next_block = 0
    /\ saved = FALSE
    /\ NoGeometryCall
    /\ published = <<"busy">>
    /\ thread2 = "none"
    /\ extracted = FALSE
    /\ stop_pc = "idle"

CancelledOnEntry_Ignored == FALSE

\* "stop_event and stop_event.is_set()" on entry.
CancelledOnEntry == stop_event

\* "if stop_event and stop_event.is_set(): return []" on entry.
CheckStart ==
    /\ pc = "check_start"
    /\ IF CancelledOnEntry
         THEN /\ blocks' = <<>>
              /\ pc' = "returned"
         ELSE /\ pc' = "run_ocr"
              /\ UNCHANGED blocks
    /\ UNCHANGED <<image, stop_event, ocr_data, words, lines, ocr_runs>>
    /\ UNCHANGED worker_vars
    /\ UNCHANGED geometry_vars
    /\ UNCHANGED process_vars
    /\ UNCHANGED extracted

\* pytesseract.image_to_data returns.
OcrSucceeds ==
    /\ pc = "run_ocr"
    /\ ocr_data' = ImageToData(image)
    /\ ocr_runs' = Append(ocr_runs, <<page_num, "ok">>)
    /\ pc' = "check_after_ocr"
    /\ UNCHANGED <<image, stop_event, words, lines, blocks>>
    /\ UNCHANGED worker_vars
    /\ UNCHANGED geometry_vars
    /\ UNCHANGED process_vars
    /\ UNCHANGED extracted

OcrFailure_Propagates ==
    /\ pc' = "raised"
    /\ UNCHANGED blocks

\* "except pytesseract.TesseractError: ... return []"
OcrFailure ==
    /\ blocks' = <<>>
    /\ pc' = "returned"

\* pytesseract.image_to_data raises TesseractError.
OcrFails ==
    /\ pc = "run_ocr"
    /\ ocr_runs' = Append(ocr_runs, <<page_num, "error">>)
    /\ OcrFailure
    /\ UNCHANGED <<image, stop_event, ocr_data, words, lines>>
    /\ UNCHANGED worker_vars
    /\ UNCHANGED geometry_vars
    /\ UNCHANGED process_vars
    /\ UNCHANGED extracted

\* The check after Tesseract, then "words = self._extract_words(ocr_data)"
\* (an exception it raises leaves extract_text_blocks uncaught) and
\* "if not words: return []".
CheckAndExtractWords ==
    /\ pc = "check_after_ocr"
    /\ IF stop_event
         THEN /\ blocks' = <<>>
              /\ pc' = "returned"
              /\ UNCHANGED <<words, extracted>>
         ELSE IF ExtractRaises(ocr_data)
           THEN /\ pc' = "raised"
                /\ UNCHANGED <<words, blocks, extracted>>
         ELSE /\ words' = ExtractWords(ocr_data)
              /\ extracted' = TRUE
              /\ IF words' = <<>>
                   THEN /\ blocks' = <<>>
                        /\ pc' = "returned"
                   ELSE /\ pc' = "group_lines"
                        /\ UNCHANGED blocks
    /\ UNCHANGED <<image, stop_event, ocr_data, lines, ocr_runs>>
    /\ UNCHANGED worker_vars
    /\ UNCHANGED geometry_vars
    /\ UNCHANGED process_vars

\* "lines = self._group_into_lines(words)"
GroupLines ==
    /\ pc = "group_lines"
    /\ lines' = GroupIntoLines(words)
    /\ pc' = "group_paragraphs"
    /\ UNCHANGED <<image, stop_event, ocr_data, words, blocks, ocr_runs>>
    /\ UNCHANGED worker_vars
    /\ UNCHANGED geometry_vars
    /\ UNCHANGED process_vars
    /\ UNCHANGED extracted

GroupParagraphs_Preemptible ==
    /\ pc = "group_paragraphs"
    /\ blocks' = IF stop_event THEN <<>> ELSE GroupIntoParagraphs(lines)
    /\ pc' = "returned"
    /\ UNCHANGED <<image, stop_event, ocr_data, words, lines, ocr_runs>>
    /\ UNCHANGED worker_vars
    /\ UNCHANGED geometry_vars
    /\ UNCHANGED process_vars
    /\ UNCHANGED extracted

\* "blocks = self._group_into_paragraphs(lines); return blocks"
GroupParagraphs ==
    /\ pc = "group_paragraphs"
    /\ blocks' = GroupIntoParagraphs(lines)
    /\ pc' = "returned"
    /\ UNCHANGED <<image, stop_event, ocr_data, words, lines, ocr_runs>>
    /\ UNCHANGED worker_vars
    /\ UNCHANGED geometry_vars
    /\ UNCHANGED process_vars
    /\ UNCHANGED extracted

\* Calls of ConversionWorker.stop in a run.
MaxStops == 2

\* The calls of stop() begun so far.
StopCalls ==
    Cardinality({i \in DOMAIN published : published[i] = "cancelled"})
        + (IF stop_pc = "set" THEN 1 ELSE 0)

\* Another thread calls ConversionWorker.stop, at any moment and whatever the
\* worker is doing or has done: "self.stop_event.set()".
SetStopEvent ==
    /\ stop_pc = "idle"
    /\ StopCalls < MaxStops
    /\ stop_event' = TRUE
    /\ stop_pc' = "set"
    /\ UNCHANGED <<extract_vars, worker_vars>>
    /\ UNCHANGED geometry_vars
    /\ UNCHANGED <<published, thread2>>

\* stop() goes on: the log line, then "cancelled" is published.
PublishCancelled ==
    /\ stop_pc = "set"
    /\ published' = Append(published, "cancelled")
    /\ stop_pc' = "idle"
    /\ UNCHANGED <<stop_event, extract_vars, worker_vars>>
    /\ UNCHANGED geometry_vars
    /\ UNCHANGED thread2

Next ==
    \/ CheckStart
    \/ OcrSucceeds
    \/ OcrFails
    \/ CheckAndExtractWords
    \/ GroupLines
    \/ GroupParagraphs
    \/ SetStopEvent
    \/ PublishCancelled

Spec == Init /\ [][Next]_vars

----------------------------------------------------------------------------
(* The page loop of ConversionWorker._process, from "for i, image in       *)
(* enumerate(images)" to builder.save, with SlideBuilder.add_slide.        *)

MaxPages == 2

\* Pages of the documents converted: no detection at all, only rows the word
\* filter drops, one block, and three blocks (lines 60 apart, 20 high).
BlankPage == <<>>

NoisePage ==
    <<Detection(<<" ">>, 0, 0, 50, 20, 90), Detection(Hello, 0, 30, 50, 20, 39)>>

OneBlockPage == <<Detection(Hello, 0, 0, 50, 20, 90)>>

ThreeBlockPage ==
    <<Detection(Hello, 0, 0, 50, 20, 90),
      Detection(World, 0, 60, 50, 20, 88),
      Detection(Hello, 0, 120, 50, 20, 60)>>

WorkerPages == {BlankPage, NoisePage, OneBlockPage, ThreeBlockPage}

Documents == UNION {[1..k -> WorkerPages] : k \in 1..MaxPages}

\* The dictionary with one column cut to its first n entries (n = 0 also
\* stands for a dictionary without that column).
CutColumn(data, column, n) ==
    IF column = "conf"
      THEN [data EXCEPT !.conf = SubSeq(@, 1, n)]
      ELSE [data EXCEPT !.height = SubSeq(@, 1, n)]

\* The state after "builder.create_presentation(images[0])"; "busy" was
\* published when _process began.
InitWorker ==
    /\ images \in Documents
    /\ page_num = 1
    /\ wpc = "loop"
    /\ slides = <<>>
    /\ next_block = 0
    /\ saved = FALSE
    /\ stop_event = FALSE
    /\ image = <<>>
    /\ pc = "idle"
    /\ ocr_data = ImageToData(<<>>)
    /\ words = <<>>
    /\ lines = <<>>
    /\ blocks = <<>>
    /\ ocr_runs = <<>>
    /\ NoGeometryCall
    /\ published = <<"busy">>
    /\ thread2 = "none"
    /\ extracted = FALSE
    /\ stop_pc = "idle"

\* The loop head: the loop is over, or "if self.stop_event.is_set(): return",
\* or "text_blocks = ocr.extract_text_blocks(image, self.stop_event)" begins.
LoopNext ==
    /\ wpc = "loop"
    /\ IF page_num > Len(images)
         THEN /\ wpc' = "final_check"
              /\ UNCHANGED <<image, pc, ocr_data, words, lines, blocks,
                             extracted>>
         ELSE IF stop_event
           THEN /\ wpc' = "cancelled"
                /\ UNCHANGED <<image, pc, ocr_data, words, lines, blocks,
                               extracted>>
         ELSE /\ wpc' = "extract"
              /\ image' = images[page_num]
              /\ pc' = "check_start"
              /\ extracted' = FALSE
              /\ ocr_data' = ImageToData(<<>>)
              /\ words' = <<>>
              /\ lines' = <<>>
              /\ blocks' = <<>>
    /\ UNCHANGED <<stop_event, ocr_runs, images, page_num, slides, next_block,
                   saved>>
    /\ UNCHANGED geometry_vars
    /\ UNCHANGED process_vars

\* image_to_data returns a dictionary in which one column is shorter than
\* the "text" column.
OcrReturnsShortColumn ==
    /\ pc = "run_ocr"
    /\ \E column \in {"conf", "height"}, n \in 0..(Len(image) - 1) :
          ocr_data' = CutColumn(ImageToData(image), column, n)
    /\ ocr_runs' = Append(ocr_runs, <<page_num, "ok">>)
    /\ pc' = "check_after_ocr"
    /\ UNCHANGED <<image, stop_event, words, lines, blocks>>
    /\ UNCHANGED worker_vars
    /\ UNCHANGED geometry_vars
    /\ UNCHANGED process_vars
    /\ UNCHANGED extracted

\* extract_text_blocks has returned: "if self.stop_event.is_set(): return".
AfterExtract ==
    /\ wpc = "extract"
    /\ pc = "returned"
    /\ wpc' = IF stop_event THEN "cancelled" ELSE "add_slide"
    /\ UNCHANGED <<stop_event, extract_vars, images, page_num, slides,
                   next_block, saved>>
    /\ UNCHANGED geometry_vars
    /\ UNCHANGED process_vars

\* An exception left extract_text_blocks: "except Exception as e" publishes
\* "error".
ExtractFailed ==
    /\ wpc = "extract"
    /\ pc = "raised"
    /\ wpc' = "error"
    /\ published' = Append(published, "error")
    /\ UNCHANGED <<stop_event, extract_vars, images, page_num, slides,
                   next_block, saved>>
    /\ UNCHANGED geometry_vars
    /\ UNCHANGED <<thread2, stop_pc>>

AddSlideCheck_SkipsEmptyPage ==
    /\ wpc = "add_slide"
    /\ wpc' = IF stop_event \/ blocks = <<>> THEN "progress" ELSE "new_slide"
    /\ UNCHANGED <<stop_event, extract_vars, images, page_num, slides,
                   next_block, saved>>
    /\ UNCHANGED geometry_vars
    /\ UNCHANGED process_vars

\* add_slide, on entry: "if stop_event and stop_event.is_set(): return".
AddSlideCheck ==
    /\ wpc = "add_slide"
    /\ wpc' = IF stop_event THEN "progress" ELSE "new_slide"
    /\ UNCHANGED <<stop_event, extract_vars, images, page_num, slides,
                   next_block, saved>>
    /\ UNCHANGED geometry_vars
    /\ UNCHANGED process_vars

\* "slide = self.prs.slides.add_slide(blank_layout)" and the background.
NewSlide ==
    /\ wpc = "new_slide"
    /\ slides' = Append(slides, <<>>)
    /\ next_block' = 1
    /\ wpc' = "text_boxes"
    /\ UNCHANGED <<stop_event, extract_vars, images, page_num, saved>>
    /\ UNCHANGED geometry_vars
    /\ UNCHANGED process_vars

BlockCancelled_NeverPolled == FALSE

\* "if stop_event and stop_event.is_set(): return" before a block.
BlockCancelled == stop_event

\* "for block in text_blocks": the loop ends, or the poll before the block.
TextBoxCheck ==
    /\ wpc = "text_boxes"
    /\ wpc' = IF next_block > Len(blocks) THEN "progress"
              ELSE IF BlockCancelled THEN "progress"
              ELSE "place_box"
    /\ UNCHANGED <<stop_event, extract_vars, images, page_num, slides,
                   next_block, saved>>
    /\ UNCHANGED geometry_vars
    /\ UNCHANGED process_vars

\* "self._add_text_box(slide, block)"
AddTextBox ==
    /\ wpc = "place_box"
    /\ slides' = [slides EXCEPT ![Len(slides)] = Append(@, blocks[next_block])]
    /\ next_block' = next_block + 1
    /\ wpc' = "text_boxes"
    /\ UNCHANGED <<stop_event, extract_vars, images, page_num, saved>>
    /\ UNCHANGED geometry_vars
    /\ UNCHANGED process_vars

\* The progress update that ends the loop body.
Progress ==
    /\ wpc = "progress"
    /\ page_num' = page_num + 1
    /\ wpc' = "loop"
    /\ UNCHANGED <<stop_event, extract_vars, images, slides, next_block,
                   saved>>
    /\ UNCHANGED geometry_vars
    /\ UNCHANGED process_vars

\* After the loop: "if self.stop_event.is_set(): return".
FinalCheck ==
    /\ wpc = "final_check"
    /\ wpc' = IF stop_event THEN "cancelled" ELSE "save"
    /\ UNCHANGED <<stop_event, extract_vars, images, page_num, slides,
                   next_block, saved>>
    /\ UNCHANGED geometry_vars
    /\ UNCHANGED process_vars

\* "builder.save(output_path)" returns: the file is written.
Save ==
    /\ wpc = "save"
    /\ saved' = TRUE
    /\ wpc' = "saved"
    /\ UNCHANGED <<stop_event, extract_vars, images, page_num, slides,
                   next_block>>
    /\ UNCHANGED geometry_vars
    /\ UNCHANGED process_vars

\* The settings are updated (settings_manager.update keeps its own IOError)
\* and "done" is published.
PublishDone ==
    /\ wpc = "saved"
    /\ wpc' = "done"
    /\ published' = Append(published, "done")
    /\ UNCHANGED <<stop_event, extract_vars, images, page_num, slides,
                   next_block, saved>>
    /\ UNCHANGED geometry_vars
    /\ UNCHANGED <<thread2, stop_pc>>

SaveFails_PublishesDone ==
    /\ wpc = "save"
    /\ wpc' = "done"
    /\ published' = Append(published, "done")
    /\ UNCHANGED <<stop_event, extract_vars, images, page_num, slides,
                   next_block, saved>>
    /\ UNCHANGED geometry_vars
    /\ UNCHANGED <<thread2, stop_pc>>

\* builder.save raises IOError: "except Exception as e" publishes "error".
SaveFails ==
    /\ wpc = "save"
    /\ wpc' = "error"
    /\ published' = Append(published, "error")
    /\ UNCHANGED <<stop_event, extract_vars, images, page_num, slides,
                   next_block, saved>>
    /\ UNCHANGED geometry_vars
    /\ UNCHANGED <<thread2, stop_pc>>

NextWorker ==
    \/ LoopNext
    \/ CheckStart
    \/ OcrSucceeds
    \/ OcrFails
    \/ OcrReturnsShortColumn
    \/ CheckAndExtractWords
    \/ GroupLines
    \/ GroupParagraphs
    \/ SetStopEvent
    \/ PublishCancelled
    \/ AfterExtract
    \/ ExtractFailed
    \/ AddSlideCheck
    \/ NewSlide
    \/ TextBoxCheck
    \/ AddTextBox
    \/ Progress
    \/ FinalCheck
    \/ Save
    \/ PublishDone
    \/ SaveFails

SpecWorker == InitWorker /\ [][NextWorker]_vars

\* ConversionWorker._process from its first line: the steps before the page
\* loop.  start() has cleared the event and started the thread.
InitProcess ==
    /\ images = <<>>
    /\ page_num = 1
    /\ wpc = "begin"
    /\ slides = <<>>
    /\ next_block = 0
    /\ saved = FALSE
    /\ stop_event = FALSE
    /\ image = <<>>
    /\ pc = "idle"
    /\ ocr_data = ImageToData(<<>>)
    /\ words = <<>>
    /\ lines = <<>>
    /\ blocks = <<>>
    /\ ocr_runs = <<>>
    /\ NoGeometryCall
    /\ published = <<>>
    /\ thread2 = "none"
    /\ extracted = FALSE
    /\ stop_pc = "idle"

\* pubsub.send_all_on_topic("status", "busy")
Begin ==
    /\ wpc = "begin"
    /\ published' = Append(published, "busy")
    /\ wpc' = "validate"
    /\ UNCHANGED <<stop_event, extract_vars, geometry_vars, thread2, stop_pc>>
    /\ UNCHANGED <<images, page_num, slides, next_block, saved>>

\* "if not settings.is_valid()": "error" is published and the run returns.
SettingsInvalid ==
    /\ wpc = "validate"
    /\ published' = Append(published, "error")
    /\ wpc' = "error"
    /\ UNCHANGED <<stop_event, extract_vars, geometry_vars, thread2, stop_pc>>
    /\ UNCHANGED <<images, page_num, slides, next_block, saved>>

\* The settings are valid.
SettingsValid ==
    /\ wpc = "validate"
    /\ wpc' = "render"
    /\ UNCHANGED <<stop_event, extract_vars, geometry_vars, process_vars>>
    /\ UNCHANGED <<images, page_num, slides, next_block, saved>>

\* convert_from_path raises: PDFPageCountError and PDFSyntaxError have
\* their own handlers, anything else reaches "except Exception"; each
\* publishes "error" once and the run returns.
RenderFails ==
    /\ wpc = "render"
    /\ published' = Append(published, "error")
    /\ wpc' = "error"
    /\ UNCHANGED <<stop_event, extract_vars, geometry_vars, thread2, stop_pc>>
    /\ UNCHANGED <<images, page_num, slides, next_block, saved>>

\* convert_from_path returns the page images; no page is an error.
RenderSucceeds ==
    /\ wpc = "render"
    /\ \E doc \in Documents \cup {<<>>} :
          /\ images' = doc
          /\ IF Len(doc) = 0
                THEN /\ published' = Append(published, "error")
                     /\ wpc' = "error"
                ELSE /\ published' = published
                     /\ wpc' = "check_before_ocr"
    /\ UNCHANGED <<stop_event, extract_vars, geometry_vars, thread2, stop_pc>>
    /\ UNCHANGED <<page_num, slides, next_block, saved>>

\* "if self.stop_event.is_set(): return" before the OCR engine is set up.
CheckBeforeOcr ==
    /\ wpc = "check_before_ocr"
    /\ wpc' = IF stop_event THEN "cancelled" ELSE "init_ocr"
    /\ UNCHANGED <<stop_event, extract_vars, geometry_vars, process_vars>>
    /\ UNCHANGED <<images, page_num, slides, next_block, saved>>

\* OCRProcessor() raises FileNotFoundError: the executable is missing.
InitOcrFails ==
    /\ wpc = "init_ocr"
    /\ published' = Append(published, "error")
    /\ wpc' = "error"
    /\ UNCHANGED <<stop_event, extract_vars, geometry_vars, thread2, stop_pc>>
    /\ UNCHANGED <<images, page_num, slides, next_block, saved>>

\* OCRProcessor() and builder.create_presentation(images[0]) succeed: the
\* page loop begins.
InitOcr ==
    /\ wpc = "init_ocr"
    /\ wpc' = "loop"
    /\ UNCHANGED <<stop_event, extract_vars, geometry_vars, process_vars>>
    /\ UNCHANGED <<images, page_num, slides, next_block, saved>>

\* A step of the worker thread, the line grouping of extract_text_blocks
\* apart.
ProcessStep ==
    \/ Begin
    \/ SettingsInvalid
    \/ SettingsValid
    \/ RenderFails
    \/ RenderSucceeds
    \/ CheckBeforeOcr
    \/ InitOcrFails
    \/ InitOcr
    \/ LoopNext
    \/ CheckStart
    \/ OcrSucceeds
    \/ OcrFails
    \/ OcrReturnsShortColumn
    \/ CheckAndExtractWords
    \/ GroupParagraphs
    \/ AfterExtract
    \/ ExtractFailed
    \/ AddSlideCheck
    \/ NewSlide
    \/ TextBoxCheck
    \/ AddTextBox
    \/ Progress
    \/ FinalCheck
    \/ Save
    \/ PublishDone
    \/ SaveFails

\* Weak fairness of GroupLines, which is enabled exactly when pc is
\* "group_lines", written out: WF_vars(GroupLines) with ENABLED replaced by
\* that condition.
GroupLinesReturns ==
    <>[](pc = "group_lines") => []<><<GroupLines>>_vars

NextProcess ==
    \/ Begin
    \/ SettingsInvalid
    \/ SettingsValid
    \/ RenderFails
    \/ RenderSucceeds
    \/ CheckBeforeOcr
    \/ InitOcrFails
    \/ InitOcr
    \/ LoopNext
    \/ CheckStart
    \/ OcrSucceeds
    \/ OcrFails
    \/ OcrReturnsShortColumn
    \/ CheckAndExtractWords
    \/ GroupLines
    \/ GroupParagraphs
    \/ SetStopEvent
    \/ PublishCancelled
    \/ AfterExtract
    \/ ExtractFailed
    \/ AddSlideCheck
    \/ NewSlide
    \/ TextBoxCheck
    \/ AddTextBox
    \/ Progress
    \/ FinalCheck
    \/ Save
    \/ PublishDone
    \/ SaveFails

\* The worker thread is a daemon thread that the scheduler keeps running and
\* every call it makes returns or raises; stop() may never be called.
SpecProcess ==
    /\ InitProcess
    /\ [][NextProcess]_vars
    /\ WF_vars(ProcessStep)
    /\ GroupLinesReturns

----------------------------------------------------------------------------
(* src/core/geometry.py. px_to_emu and emu_to_px compute in Python floats  *)
(* (IEEE 754 binary64): "pixels / dpi" and "inches * EMU_PER_INCH" are     *)
(* each rounded to 53 significant bits, ties to even, and int() truncates. *)
(* A float is [m, e], the value m * 2^e, m a natural of at most 53 bits    *)
(* (54 after a carry); naturals beyond 31 bits are little-endian sequences *)
(* of digits in base 2^15.                                                 *)

\* A second conversion on the same ConversionWorker.  on_status shows the
\* convert button again as soon as "done", "error" or "cancelled" is
\* published, and start() clears the worker's one stop_event and starts a
\* new thread without waiting for the earlier one.
InitRestart ==
    /\ InitWorker
    /\ Len(images) = 1

Restart ==
    /\ thread2 = "none"
    /\ published # <<>>
    /\ Last(published) \in {"done", "error", "cancelled"}
    /\ stop_event' = FALSE
    /\ thread2' = "started"
    /\ UNCHANGED <<extract_vars, worker_vars, geometry_vars, published,
                   stop_pc>>

\* The second thread's _process begins: "busy".
Thread2Begin ==
    /\ thread2 = "started"
    /\ published' = Append(published, "busy")
    /\ thread2' = "prelude"
    /\ UNCHANGED <<stop_event, extract_vars, worker_vars, geometry_vars,
                   stop_pc>>

\* The places where the second thread polls the event ("prelude": before
\* the OCR engine is set up; "loop": the loop head; "extract": after
\* extract_text_blocks; "final_check": after the loop), each with the place
\* it goes to when the event is not set.
Thread2AfterPoll ==
    [prelude |-> "init_ocr", loop |-> "extract", extract |-> "add_slide",
     final_check |-> "save"]

\* The second thread polls the event and finds it unset.
Thread2Advance ==
    /\ thread2 \in DOMAIN Thread2AfterPoll
    /\ ~stop_event
    /\ thread2' = Thread2AfterPoll[thread2]
    /\ UNCHANGED <<stop_event, extract_vars, worker_vars, geometry_vars,
                   published, stop_pc>>

\* The second thread polls the event, finds it set and returns.
Thread2Cancelled ==
    /\ thread2 \in DOMAIN Thread2AfterPoll
    /\ stop_event
    /\ thread2' = "ended"
    /\ UNCHANGED <<stop_event, extract_vars, worker_vars, geometry_vars,
                   published, stop_pc>>

\* Its steps that read no event: the engine and the presentation are set
\* up, builder.add_slide returns, the loop is over, builder.save returns.
Thread2Step ==
    /\ \/ thread2 = "init_ocr" /\ thread2' = "loop"
       \/ thread2 = "add_slide" /\ thread2' = "loop"
       \/ thread2 = "loop" /\ thread2' = "final_check"
       \/ thread2 = "save" /\ thread2' = "saved"
    /\ UNCHANGED <<stop_event, extract_vars, worker_vars, geometry_vars,
                   published, stop_pc>>

\* The second thread publishes "done".
Thread2Done ==
    /\ thread2 = "saved"
    /\ published' = Append(published, "done")
    /\ thread2' = "ended"
    /\ UNCHANGED <<stop_event, extract_vars, worker_vars, geometry_vars,
                   stop_pc>>

\* The second thread ends with "error": invalid settings, a render error or
\* no page, a missing engine, or an exception of a later call.
Thread2Fails ==
    /\ thread2 \in {"prelude", "init_ocr", "extract", "add_slide", "save"}
    /\ published' = Append(published, "error")
    /\ thread2' = "ended"
    /\ UNCHANGED <<stop_event, extract_vars, worker_vars, geometry_vars,
                   stop_pc>>

NextRestart ==
    \/ LoopNext
    \/ CheckStart
    \/ OcrSucceeds
    \/ OcrFails
    \/ OcrReturnsShortColumn
    \/ CheckAndExtractWords
    \/ GroupLines
    \/ GroupParagraphs
    \/ SetStopEvent
    \/ PublishCancelled
    \/ AfterExtract
    \/ ExtractFailed
    \/ AddSlideCheck
    \/ NewSlide
    \/ TextBoxCheck
    \/ AddTextBox
    \/ Progress
    \/ FinalCheck
    \/ Save
    \/ PublishDone
    \/ SaveFails
    \/ Restart
    \/ Thread2Begin
    \/ Thread2Advance
    \/ Thread2Cancelled
    \/ Thread2Step
    \/ Thread2Done
    \/ Thread2Fails

SpecRestart == InitRestart /\ [][NextRestart]_vars

EMU_PER_INCH == 914400

DigitBits == 15

Base == 32768

MantissaBits == 53

\* Bits a dividend is shifted left by before the division, enough for a
\* quotient of more than 53 bits.
DivScale == 75

RECURSIVE Pow2(_)
Pow2(n) == IF n = 0 THEN 1 ELSE 2 * Pow2(n - 1)

\* The exponent of 2 in d (d > 0).
RECURSIVE TwoPart(_)
TwoPart(d) == IF d % 2 = 0 THEN 1 + TwoPart(d \div 2) ELSE 0

\* The digits of n >= 0; zero is the empty sequence.
RECURSIVE BigOf(_)
BigOf(n) == IF n = 0 THEN <<>> ELSE <<n % Base>> \o BigOf(n \div Base)

RECURSIVE BigTrim(_)
BigTrim(a) ==
    IF a # <<>> /\ a[Len(a)] = 0 THEN BigTrim(SubSeq(a, 1, Len(a) - 1)) ELSE a

\* The integer a stands for (it must fit an int).
RECURSIVE BigToInt(_)
BigToInt(a) == IF a = <<>> THEN 0 ELSE Head(a) + Base * BigToInt(Tail(a))

\* a * m + c, for 0 <= m, c < Base.
RECURSIVE BigMulSmall(_, _, _)
BigMulSmall(a, m, c) ==
    IF a = <<>> THEN BigOf(c)
    ELSE LET t == Head(a) * m + c
         IN  <<t % Base>> \o BigMulSmall(Tail(a), m, t \div Base)

\* Quotient (untrimmed) and remainder of a by d, for 0 < d <= Base.
RECURSIVE BigDivSmall(_, _)
BigDivSmall(a, d) ==
    IF a = <<>> THEN [q |-> <<>>, r |-> 0]
    ELSE LET hi == BigDivSmall(Tail(a), d)
             t  == hi.r * Base + Head(a)
         IN  [q |-> <<t \div d>> \o hi.q, r |-> t % d]

\* a * 2^k
BigShiftLeft(a, k) ==
    IF a = <<>> THEN <<>>
    ELSE [i \in 1..(k \div DigitBits) |-> 0]
             \o BigMulSmall(a, Pow2(k % DigitBits), 0)

\* a \div 2^n, and whether a bit that was dropped was set.
BigDropBits(a, n) ==
    LET whole == IF n \div DigitBits > Len(a) THEN Len(a) ELSE n \div DigitBits
        rest  == BigDivSmall(SubSeq(a, whole + 1, Len(a)), Pow2(n % DigitBits))
    IN  [q      |-> BigTrim(rest.q),
         sticky |-> rest.r # 0 \/ \E i \in 1..whole : a[i] # 0]

RECURSIVE BigInc(_)
BigInc(a) ==
    IF a = <<>> THEN <<1>>
    ELSE IF Head(a) + 1 < Base THEN <<Head(a) + 1>> \o Tail(a)
    ELSE <<0>> \o BigInc(Tail(a))

BigIsOdd(a) == a # <<>> /\ a[1] % 2 = 1

RECURSIVE SmallBitLen(_)
SmallBitLen(n) == IF n = 0 THEN 0 ELSE 1 + SmallBitLen(n \div 2)

BigBitLen(a) ==
    IF a = <<>> THEN 0
    ELSE DigitBits * (Len(a) - 1) + SmallBitLen(a[Len(a)])

\* The float nearest to q * 2^e (ties to even); sticky: the exact value is
\* above q * 2^e by less than 2^e.
RoundToFloat(q, e, sticky) ==
    IF BigBitLen(q) <= MantissaBits THEN [m |-> q, e |-> e]
    ELSE LET s     == BigBitLen(q) - MantissaBits
             low   == BigDropBits(q, s - 1)
             guard == BigIsOdd(low.q)
             m0    == BigDropBits(low.q, 1).q
             up    == guard /\ (sticky \/ low.sticky \/ BigIsOdd(m0))
         IN  [m |-> IF up THEN BigInc(m0) ELSE m0, e |-> e + s]

\* The float a / d of two ints, a >= 0 and d > 0 (odd part of d below Base).
FloatDiv(a, d) ==
    IF a = 0 THEN [m |-> <<>>, e |-> 0]
    ELSE LET t  == TwoPart(d)
             qr == BigDivSmall(BigShiftLeft(BigOf(a), DivScale), d \div Pow2(t))
         IN  RoundToFloat(BigTrim(qr.q), 0 - DivScale - t, qr.r # 0)

\* The float x * c for an int c > 0 (odd part of c below Base).
FloatMulInt(x, c) ==
    LET t == TwoPart(c)
    IN  RoundToFloat(BigMulSmall(x.m, c \div Pow2(t), 0), x.e + t, FALSE)

\* int(x) for a float x >= 0.
FloatTrunc(x) ==
    IF x.e >= 0 THEN BigToInt(BigShiftLeft(x.m, x.e))
    ELSE BigToInt(BigDropBits(x.m, 0 - x.e).q)

px_to_emu_ReciprocalFirst(pixels, dpi) ==
    IF pixels = 0 THEN 0
    ELSE FloatTrunc(FloatMulInt(FloatMulInt(FloatDiv(1, dpi), pixels),
                                EMU_PER_INCH))

\* "inches = pixels / dpi; return int(inches * EMU_PER_INCH)"
px_to_emu(pixels, dpi) ==
    FloatTrunc(FloatMulInt(FloatDiv(pixels, dpi), EMU_PER_INCH))

\* "inches = emu / EMU_PER_INCH; return int(inches * dpi)"
emu_to_px(emu, dpi) ==
    FloatTrunc(FloatMulInt(FloatDiv(emu, EMU_PER_INCH), dpi))

calculate_slide_dimensions_Square(image_width_px, image_height_px, dpi) ==
    <<px_to_emu(image_width_px, dpi), px_to_emu(image_width_px, dpi)>>

\* "width_emu = px_to_emu(image_width_px, dpi); height_emu = ...;
\* return (width_emu, height_emu)"
calculate_slide_dimensions(image_width_px, image_height_px, dpi) ==
    <<px_to_emu(image_width_px, dpi), px_to_emu(image_height_px, dpi)>>

get_aspect_ratio_ReturnsInfinity(width, height) ==
    IF height = 0 THEN [raised |-> FALSE, value |-> <<1, 0>>]
    ELSE LET q == IF height > 0 THEN Quotient(width, height)
                  ELSE Quotient(0 - width, 0 - height)
         IN  [raised |-> FALSE, value |-> <<q.num, q.den>>]

\* "if height == 0: raise ValueError(...)" and "return width / height", the
\* quotient kept exact as a reduced fraction <<num, den>>, den > 0.
get_aspect_ratio(width, height) ==
    IF height = 0 THEN [raised |-> TRUE, value |-> <<>>]
    ELSE LET q == IF height > 0 THEN Quotient(width, height)
                  ELSE Quotient(0 - width, 0 - height)
         IN  [raised |-> FALSE, value |-> <<q.num, q.den>>]

----------------------------------------------------------------------------
(* Calls of the functions of geometry.py, one call per run (and the round  *)
(* trip emu_to_px after px_to_emu).                                        *)

MaxPixels == 125

\* Lengths stay below this many inches, so that their EMU fit 31 bits.
MaxInches == 2000

\* Resolutions: 1, two that do not divide 914400 evenly (7) or divide it
\* with an odd quotient (3), screen and scan resolutions.
DpiValues == {1, 3, 7, 72, 96, 300}

\* Page sizes: small ones and the 3000 x 2250 scan of a 10 x 7.5 inch page.
ImageSizes == {1, 37, 38, 41, 300, 2250, 3000}

PixelValues == (0..MaxPixels) \cup DpiValues \cup ImageSizes

MaxDpi == 1200

\* The calls of px_to_emu: the pixel values at the resolutions above, the
\* small ones at one dot per EMU, and nothing and one whole inch at every
\* resolution up to MaxDpi.
PxToEmuCalls ==
    {c \in PixelValues \X DpiValues : c[1] < MaxInches * c[2]}
        \cup {<<pixels, EMU_PER_INCH>> : pixels \in 0..MaxPixels}
        \cup {<<0, dpi>> : dpi \in 1..MaxDpi}
        \cup {<<dpi, dpi>> : dpi \in 1..MaxDpi}

AspectValues == {0 - 3, 0, 4, 3000}

\* Nothing but geometry.py runs.
InitGeometry ==
    /\ NoGeometryCall
    /\ stop_event = FALSE
    /\ image = <<>>
    /\ pc = "idle"
    /\ ocr_data = ImageToData(<<>>)
    /\ words = <<>>
    /\ lines = <<>>
    /\ blocks = <<>>
    /\ ocr_runs = <<>>
    /\ images = <<>>
    /\ page_num = 1
    /\ wpc = "idle"
    /\ slides = <<>>
    /\ next_block = 0
    /\ saved = FALSE
    /\ published = <<>>
    /\ thread2 = "none"
    /\ extracted = FALSE
    /\ stop_pc = "idle"

\* px_to_emu(pixels, dpi)
PxToEmu ==
    /\ call.fn = "none"
    /\ \E c \in PxToEmuCalls :
          /\ call' = [fn |-> "px_to_emu", args |-> c]
          /\ ret' = [raised |-> FALSE, value |-> <<px_to_emu(c[1], c[2])>>]
    /\ UNCHANGED <<stop_event, extract_vars, worker_vars>>
    /\ UNCHANGED process_vars

\* emu_to_px(emu, dpi) of the value px_to_emu has just returned, at the
\* same dpi.
EmuToPx ==
    /\ call.fn = "px_to_emu"
    /\ call' = [fn |-> "emu_to_px", args |-> <<ret.value[1], call.args[2]>>]
    /\ ret' = [raised |-> FALSE,
               value |-> <<emu_to_px(ret.value[1], call.args[2])>>]
    /\ UNCHANGED <<stop_event, extract_vars, worker_vars>>
    /\ UNCHANGED process_vars

\* calculate_slide_dimensions(image_width_px, image_height_px, dpi)
CalculateSlideDimensions ==
    /\ call.fn = "none"
    /\ \E w \in ImageSizes, h \in ImageSizes, dpi \in DpiValues :
          /\ w < MaxInches * dpi
          /\ h < MaxInches * dpi
          /\ call' = [fn |-> "calculate_slide_dimensions",
                      args |-> <<w, h, dpi>>]
          /\ ret' = [raised |-> FALSE,
                     value |-> calculate_slide_dimensions(w, h, dpi)]
    /\ UNCHANGED <<stop_event, extract_vars, worker_vars>>
    /\ UNCHANGED process_vars

\* get_aspect_ratio(width, height)
GetAspectRatio ==
    /\ call.fn = "none"
    /\ \E width \in AspectValues, height \in AspectValues :
          /\ call' = [fn |-> "get_aspect_ratio", args |-> <<width, height>>]
          /\ ret' = get_aspect_ratio(width, height)
    /\ UNCHANGED <<stop_event, extract_vars, worker_vars>>
    /\ UNCHANGED process_vars

\* The dpi of the rendered pages and of the builder: SlideBuilder(dpi=OCR_DPI).
OCR_DPI == 300

\* Pixel sizes of the first page image.
PageSizes == {<<41, 4>>, <<4, 41>>}

\* The boxes <<left, top, width, height>> lying inside a page of W by H
\* pixels.
BoxesInside(W, H) ==
    {<<left, top, width, height>> :
        left \in 0..W, top \in 0..H, width \in 0..W, height \in 0..H}

\* SlideBuilder.create_presentation(first_image): the slide size is the
\* image's pixel size converted at the builder's dpi.
CreatePresentation ==
    /\ call.fn = "none"
    /\ \E size \in PageSizes :
          /\ call' = [fn |-> "create_presentation", args |-> size]
          /\ ret' = [raised |-> FALSE,
                     value |-> calculate_slide_dimensions(size[1], size[2],
                                                          OCR_DPI)]
    /\ UNCHANGED <<stop_event, extract_vars, worker_vars>>
    /\ UNCHANGED process_vars

\* The position and size, in EMU, that _add_text_box gives the text box of a
\* block: four conversions, one per field.
add_text_box(left, top, width, height, dpi) ==
    <<px_to_emu(left, dpi), px_to_emu(top, dpi),
      px_to_emu(width, dpi), px_to_emu(height, dpi)>>

\* SlideBuilder._add_text_box for a block of a page as large as the first
\* one, on the presentation just created.
PlaceTextBox ==
    /\ call.fn = "create_presentation"
    /\ \E b \in BoxesInside(call.args[1], call.args[2]) :
          /\ b[1] + b[3] <= call.args[1]
          /\ b[2] + b[4] <= call.args[2]
          /\ call' = [fn |-> "_add_text_box", args |-> b]
          /\ ret' = [raised |-> FALSE,
                     value |-> add_text_box(b[1], b[2], b[3], b[4], OCR_DPI)]
    /\ UNCHANGED <<stop_event, extract_vars, worker_vars>>
    /\ UNCHANGED process_vars

NextGeometry ==
    \/ PxToEmu
    \/ EmuToPx
    \/ CalculateSlideDimensions
    \/ GetAspectRatio
    \/ CreatePresentation
    \/ PlaceTextBox

SpecGeometry == InitGeometry /\ [][NextGeometry]_vars

----------------------------------------------------------------------------
(* Vocabulary of the properties.                                           *)

\* _group_into_lines has returned for a non-empty word list.
LinesGrouped == pc \in {"group_paragraphs", "returned"} /\ words # <<>>

\* _group_into_paragraphs has returned for a non-empty line list.
ParagraphsGrouped == pc = "returned" /\ lines # <<>>

\* Number of occurrences of x in s.
Count(x, s) == Cardinality({i \in 1..Len(s) : s[i] = x})

\* Words placed in lines before line k.
WordsBefore(ls, k) == SeqSum([j \in 1..(k - 1) |-> Len(ls[j])])

----------------------------------------------------------------------------
\* C1: once _group_into_lines has returned for a non-empty word list, the
\* lines together hold every input word exactly as often as the input does:
\* nothing is dropped and nothing is duplicated.
C1_LinesPreserveWords ==
    LinesGrouped =>
        LET out == Flatten(lines)
        IN  /\ Len(out) = Len(words)
            /\ \A w \in Range(words) \cup Range(out) :
                   Count(w, out) = Count(w, words)

\* Three words, two of them the same record, spread over two lines.
C1_Witness ==
    /\ LinesGrouped
    /\ Len(words) = 3
    /\ Len(lines) = 2
    /\ \E w \in Range(words) : Count(w, words) = 2

----------------------------------------------------------------------------
(* Lines as runs of the sorted words.                                      *)

\* Index in the sorted word list of the first word assigned to line k.
LineStart(ls, k) == WordsBefore(ls, k) + 1

\* The scenario's two words.
HelloWord == [text |-> Hello, left |-> 0, top |-> 0,
              width |-> 50, height |-> 20, conf |-> 90]

WorldWord == [text |-> World, left |-> 60, top |-> 2,
              width |-> 50, height |-> 20, conf |-> 88]

\* C2: the lines are consecutive runs of the words sorted by (top, left);
\* the anchor of a line is the top of the first word of its run; every word
\* of the run is less than LINE_MERGE_THRESHOLD_PX (10) from the anchor, and
\* the word that starts the next line is 10 or more from it (a difference of
\* exactly 10 starts a new line).  The words with tops 0 and 2 form one line,
\* Hello before World.
C2_JoinsIffWithinThresholdOfAnchor ==
    LinesGrouped =>
        LET sorted_words == SortByTopLeft(words)
            n            == Len(lines)
        IN  /\ n >= 1
            /\ \A k \in 1..n : Len(lines[k]) >= 1
            /\ WordsBefore(lines, n + 1) = Len(sorted_words)
            /\ \A k \in 1..n :
                 LET first  == LineStart(lines, k)
                     last   == first + Len(lines[k]) - 1
                     anchor == sorted_words[first].top
                 IN  /\ lines[k] = SortByLeft(SubSeq(sorted_words, first, last))
                     /\ \A i \in (first + 1)..last :
                            Abs(sorted_words[i].top - anchor) < 10
                     /\ last < Len(sorted_words) =>
                            Abs(sorted_words[last + 1].top - anchor) >= 10
            /\ (words \in {<<HelloWord, WorldWord>>, <<WorldWord, HelloWord>>}
                  => lines = << <<HelloWord, WorldWord>> >>)

\* The scenario has run, World detected before Hello.
C2_Witness ==
    /\ LinesGrouped
    /\ words = <<WorldWord, HelloWord>>
    /\ lines = << <<HelloWord, WorldWord>> >>

\* A word exactly 10 below the anchor has started a line of its own.
C2_WitnessExactlyTen ==
    /\ LinesGrouped
    /\ Len(words) = 2
    /\ Len(lines) = 2
    /\ lines[2][1].top - lines[1][1].top = 10

\* Some line holds two words whose tops are more than the threshold apart,
\* each of them within the threshold of the top of the line's first word.
LineDrifts(ls) ==
    \E k \in 1..Len(ls) :
        LET anchor == SetMin({w.top : w \in Range(ls[k])})
        IN  \E a, b \in Range(ls[k]) :
                /\ Abs(a.top - b.top) > LINE_MERGE_THRESHOLD_PX
                /\ Abs(a.top - anchor) < LINE_MERGE_THRESHOLD_PX
                /\ Abs(b.top - anchor) < LINE_MERGE_THRESHOLD_PX

\* C3 as stated: the page in hand is one of the pages, and for some page's
\* word list _group_into_lines returns a line with two words more than
\* LINE_MERGE_THRESHOLD_PX apart.
C3_SomeInputDrifts ==
    /\ image \in Pages
    /\ \E page \in Pages :
           LineDrifts(GroupIntoLines(ExtractWords(ImageToData(page))))

\* C3, amended: the words are walked in ascending top order, so the anchor is
\* the smallest top of its line and every word of the line lies less than the
\* threshold above it: any two words of a line are less than
\* LINE_MERGE_THRESHOLD_PX apart.
C3_LineWordsWithinThreshold ==
    LinesGrouped =>
        \A k \in 1..Len(lines) :
            \A a, b \in Range(lines[k]) :
                Abs(a.top - b.top) < LINE_MERGE_THRESHOLD_PX

\* The drifting chain 0, 9, 18: the word at 18 is 9 from the word before it
\* and 18 from the anchor, and is not in the line of the first two.
C3_Witness ==
    /\ LinesGrouped
    /\ {w.top : w \in Range(words)} = {0, 9, 18}
    /\ Len(lines) = 2
    /\ {w.top : w \in Range(lines[1])} = {0, 9}
    /\ {w.top : w \in Range(lines[2])} = {18}

\* C8: within every line the left values are non-decreasing.
C8_LineOrderedByLeft ==
    LinesGrouped =>
        \A k \in 1..Len(lines) :
            \A i, j \in 1..Len(lines[k]) :
                i < j => lines[k][i].left <= lines[k][j].left

\* A line whose leftmost word is the lower of the two: the (top, left) order
\* put it second and the line sort moved it first.
C8_Witness ==
    /\ LinesGrouped
    /\ \E k \in 1..Len(lines) :
           /\ Len(lines[k]) = 2
           /\ lines[k][1].left < lines[k][2].left
           /\ lines[k][1].top > lines[k][2].top

\* C9: the lines are in top-to-bottom order: no word of a later line is above
\* a word of an earlier line, and the smallest top of each line is strictly
\* greater than that of the line before it.
C9_LinesTopToBottom ==
    LinesGrouped =>
        /\ \A i, j \in 1..Len(lines) :
               i < j => \A a \in Range(lines[i]) : \A b \in Range(lines[j]) :
                            b.top >= a.top
        /\ \A k \in 2..Len(lines) :
               SetMin({w.top : w \in Range(lines[k])})
                   > SetMin({w.top : w \in Range(lines[k - 1])})

\* Three lines from words detected bottom line first.
C9_Witness ==
    /\ LinesGrouped
    /\ Len(lines) = 3
    /\ words[1].top > words[2].top
    /\ words[2].top > words[3].top

----------------------------------------------------------------------------
(* _extract_words against the raw rows.                                    *)

\* The rule of the claim for row i of the engine's data.
C10_Kept(data, i) ==
    /\ \E j \in 1..Len(data.text[i]) : data.text[i][j] \notin Whitespace
    /\ ~(data.conf[i] < 0)
    /\ data.conf[i] >= 40

\* t is s without its leading and trailing whitespace.
C10_Trimmed(s, t) ==
    /\ t # <<>>
    /\ t[1] \notin Whitespace
    /\ t[Len(t)] \notin Whitespace
    /\ \E lead \in 0..Len(s) :
           /\ lead + Len(t) <= Len(s)
           /\ t = SubSeq(s, lead + 1, lead + Len(t))
           /\ \A j \in 1..lead : s[j] \in Whitespace
           /\ \A j \in (lead + Len(t) + 1)..Len(s) : s[j] \in Whitespace

\* _extract_words has returned, with or without a word.
WordsExtracted == extracted

\* C10: the words kept are, in order, the rows whose text is not blank, whose
\* confidence is not negative and whose confidence is at least 40; each kept
\* word carries the trimmed text and the row's box and confidence unchanged.
C10_KeepsIffTextAndConfidence ==
    WordsExtracted =>
        LET kept == {i \in 1..Len(ocr_data.text) : C10_Kept(ocr_data, i)}
        IN  /\ Len(words) = Cardinality(kept)
            /\ \A i \in kept :
                 LET w == words[Cardinality({j \in kept : j <= i})]
                 IN  /\ C10_Trimmed(ocr_data.text[i], w.text)
                     /\ w.left = ocr_data.left[i]
                     /\ w.top = ocr_data.top[i]
                     /\ w.width = ocr_data.width[i]
                     /\ w.height = ocr_data.height[i]
                     /\ w.conf = ocr_data.conf[i]

\* A page with a padded text at confidence exactly 40 (kept, trimmed) next to
\* a row at 39 and a structural row at -1 (both dropped).
C10_Witness ==
    /\ WordsExtracted
    /\ Len(ocr_data.text) = 3
    /\ {ocr_data.conf[i] : i \in 1..3} = {-1, 39, 40}
    /\ \A i \in 1..3 : ocr_data.text[i] = <<"\f", "H", "i", "\n">>
    /\ Len(words) = 1
    /\ words[1].conf = 40
    /\ words[1].text = <<"H", "i">>

----------------------------------------------------------------------------
(* Paragraphs read off the returned blocks.                                *)

\* Number of lines merged into block b: one more than its line breaks (no
\* word of a page holds a line break once trimmed).
LinesIn(b) == 1 + Cardinality({j \in 1..Len(b.text) : b.text[j] = "\n"})

\* Lines merged into the first k blocks.
LinesUpTo(bs, k) == SeqSum([j \in 1..k |-> LinesIn(bs[j])])

\* The block line i was merged into (0: none).
BlockOfLine(i) ==
    LET ks == {k \in 1..Len(blocks) : LinesUpTo(blocks, k) >= i}
    IN  IF ks = {} THEN 0 ELSE SetMin(ks)

\* All words of the lines merged into block k.
WordsOfBlock(k) ==
    UNION {Range(lines[i]) : i \in {j \in 1..Len(lines) : BlockOfLine(j) = k}}

\* gap of line i (i >= 2): its smallest top minus the largest bottom of the
\* line before it.
LineGap(i) ==
    SetMin({w.top : w \in Range(lines[i])})
        - SetMax({w.top + w.height : w \in Range(lines[i - 1])})

\* Sum of the heights of the words of line i.
LineHeights(i) == SeqSum([j \in 1..Len(lines[i]) |-> lines[i][j].height])

\* gap < (mean height of the previous line) * 1.5, in integers.
GapBelowThreshold(i) ==
    2 * LineGap(i) * Len(lines[i - 1]) < 3 * LineHeights(i - 1)

\* The mean height of the words of line i is exactly h.
MeanHeightIs(i, h) == LineHeights(i) = h * Len(lines[i])

\* C4: line i (i >= 2) is in the block of line i - 1 iff its gap is below one
\* and a half times the mean word height of line i - 1; otherwise it is the
\* first line of the next block.  For two lines and mean height 20: a gap of
\* 40 gives two blocks, a gap of 20 one block, a gap of exactly 30 two blocks.
C4_JoinsIffGapBelowThreshold ==
    ParagraphsGrouped =>
        /\ \A i \in 1..Len(lines) : BlockOfLine(i) > 0
        /\ BlockOfLine(1) = 1
        /\ \A i \in 2..Len(lines) :
               IF GapBelowThreshold(i)
                 THEN BlockOfLine(i) = BlockOfLine(i - 1)
                 ELSE BlockOfLine(i) = BlockOfLine(i - 1) + 1
        /\ (Len(lines) = 2 /\ MeanHeightIs(1, 20)) =>
               /\ LineGap(2) = 40 => Len(blocks) = 2
               /\ LineGap(2) = 20 => Len(blocks) = 1
               /\ LineGap(2) = 30 => Len(blocks) = 2

\* Three lines, the first of mean height 20: the second, at a gap of exactly
\* 30, starts a new block and the third joins it.
C4_Witness ==
    /\ ParagraphsGrouped
    /\ Len(lines) = 3
    /\ MeanHeightIs(1, 20)
    /\ LineGap(2) = 30
    /\ GapBelowThreshold(3)
    /\ Len(blocks) = 2
    /\ BlockOfLine(2) = 2
    /\ BlockOfLine(3) = 2

\* C5: the box of every block is the tightest box over the words of the
\* lines merged into it: no word reaches outside it, each of its four edges
\* is the edge of some word, and (the words having width, height >= 0) its
\* width and height are not negative.
C5_BlockBoxIsTightest ==
    ParagraphsGrouped =>
        \A k \in 1..Len(blocks) :
            LET b  == blocks[k]
                ws == WordsOfBlock(k)
            IN  /\ ws # {}
                /\ \A w \in ws :
                       /\ b.left <= w.left
                       /\ b.top <= w.top
                       /\ w.left + w.width <= b.left + b.width
                       /\ w.top + w.height <= b.top + b.height
                /\ \E w \in ws : w.left = b.left
                /\ \E w \in ws : w.top = b.top
                /\ \E w \in ws : w.left + w.width = b.left + b.width
                /\ \E w \in ws : w.top + w.height = b.top + b.height
                /\ b.width >= 0
                /\ b.height >= 0

\* A block of two lines whose right edge comes from the leftmost word and
\* whose bottom edge does not come from a word of the greatest height.
C5_Witness ==
    /\ ParagraphsGrouped
    /\ \E k \in 1..Len(blocks) :
           LET b == blocks[k]
           IN  /\ LinesIn(b) = 2
               /\ \E w \in WordsOfBlock(k) :
                      /\ w.left = b.left
                      /\ w.left + w.width = b.left + b.width
               /\ \E w \in WordsOfBlock(k) : w.left > b.left
               /\ \E w, v \in WordsOfBlock(k) :
                      /\ w.top + w.height = b.top + b.height
                      /\ v.height > w.height

\* C6: a line whose gap to the line before it is negative (the boxes
\* overlap) is always merged into the block of the line before it.
C6_NegativeGapMerges ==
    ParagraphsGrouped =>
        \A i \in 2..Len(lines) :
            LineGap(i) < 0 =>
                /\ BlockOfLine(i) > 0
                /\ BlockOfLine(i) = BlockOfLine(i - 1)

\* Two lines that overlap, merged into one block.
C6_Witness ==
    /\ ParagraphsGrouped
    /\ Len(lines) = 2
    /\ LineGap(2) < 0
    /\ Len(blocks) = 1
    /\ LinesIn(blocks[1]) = 2

\* C7: the blocks are the merges of consecutive runs of the lines, in order,
\* the last run included: every line is in exactly one block, and there is
\* one block more than there are lines whose gap is not below the threshold.
C7_BlocksPartitionLines ==
    ParagraphsGrouped =>
        /\ Len(blocks)
             = 1 + Cardinality({i \in 2..Len(lines) : ~GapBelowThreshold(i)})
        /\ LinesUpTo(blocks, Len(blocks)) = Len(lines)
        /\ \A k \in 1..Len(blocks) :
               blocks[k] = MergeLinesToBlock(
                               SubSeq(lines, LinesUpTo(blocks, k - 1) + 1,
                                      LinesUpTo(blocks, k)))

\* Two lines too far apart: the last paragraph is the second line alone, and
\* it has been closed into a block of its own.
C7_Witness ==
    /\ ParagraphsGrouped
    /\ Len(lines) = 2
    /\ ~GapBelowThreshold(2)
    /\ Len(blocks) = 2
    /\ blocks[2] = MergeLinesToBlock(<<lines[2]>>)

----------------------------------------------------------------------------
(* Claims about malformed engine output (SpecWorker).                      *)

\* C11 as stated: _extract_words has no error outcome; whatever column of
\* the engine's dictionary is short, the call returns and never raises.
C11_ExtractWordsNeverRaises == pc # "raised"

----------------------------------------------------------------------------
(* The confidence and the text of a block (Spec).                          *)

\* Sum of the confidences of the words of line i.
C12_LineConf(i) == SeqSum([j \in 1..Len(lines[i]) |-> lines[i][j].conf])

\* C12: the confidence of every block is the sum of the confidences of all
\* the words of the lines merged into it, divided by the number of those
\* words (each word weighs the same, whatever the length of its line).
C12_ConfidenceIsMeanOfAllWords ==
    ParagraphsGrouped =>
        \A k \in 1..Len(blocks) :
            LET total == SeqSum([i \in 1..Len(lines) |->
                             IF BlockOfLine(i) = k THEN C12_LineConf(i) ELSE 0])
                n     == SeqSum([i \in 1..Len(lines) |->
                             IF BlockOfLine(i) = k THEN Len(lines[i]) ELSE 0])
                c     == blocks[k].confidence
            IN  /\ n > 0
                /\ c.den > 0
                /\ c.num * n = total * c.den

\* A block of a two-word line (90 and 60) and a one-word line (90): the mean
\* over the three words is 80, the mean of the line means 75 and 90 is 82.5.
C12_Witness ==
    /\ ParagraphsGrouped
    /\ Len(blocks) = 1
    /\ Len(lines) = 2
    /\ Len(lines[1]) = 2
    /\ Len(lines[2]) = 1
    /\ C12_LineConf(1) = 150
    /\ C12_LineConf(2) = 90
    /\ blocks[1].confidence = Quotient(80, 1)

\* The texts of the first j words of a line, one space between neighbours.
RECURSIVE C13_WordsText(_, _)
C13_WordsText(line, j) ==
    IF j = 0 THEN <<>>
    ELSE IF j = 1 THEN line[1].text
    ELSE C13_WordsText(line, j - 1) \o <<" ">> \o line[j].text

\* The strings of lines a..b, one line break between neighbours.
RECURSIVE C13_LinesText(_, _)
C13_LinesText(a, b) ==
    IF b < a THEN <<>>
    ELSE IF b = a THEN C13_WordsText(lines[a], Len(lines[a]))
    ELSE C13_LinesText(a, b - 1) \o <<"\n">>
             \o C13_WordsText(lines[b], Len(lines[b]))

\* The block line i belongs to, by the gaps alone.
C13_BlockOf(i) == 1 + Cardinality({j \in 2..i : ~GapBelowThreshold(j)})

\* C13: the text of block k is the strings of its lines, in order, with one
\* line break between two lines, each line string being its words' texts in
\* line order with one space between two words; a block of n lines has n - 1
\* line breaks, and its text neither starts nor ends with a separator.
C13_TextJoinsWordsAndLines ==
    ParagraphsGrouped =>
        \A k \in 1..Len(blocks) :
            LET mine == {i \in 1..Len(lines) : C13_BlockOf(i) = k}
                text == blocks[k].text
            IN  /\ mine # {}
                /\ text = C13_LinesText(SetMin(mine), SetMax(mine))
                /\ Cardinality({j \in 1..Len(text) : text[j] = "\n"})
                       = Cardinality(mine) - 1
                /\ text # <<>>
                /\ text[1] \notin {" ", "\n"}
                /\ text[Len(text)] \notin {" ", "\n"}

\* A block of two lines, the first of two words: "Hello World\nHello".
C13_Witness ==
    /\ ParagraphsGrouped
    /\ Len(blocks) = 1
    /\ Len(lines) = 2
    /\ Len(lines[1]) = 2
    /\ blocks[1].text = Hello \o <<" ">> \o World \o <<"\n">> \o Hello

----------------------------------------------------------------------------
(* The order of the filtered word list (Spec).                             *)

\* The word lists that are permutations of ws.
C15_Permutations(ws) ==
    {[i \in 1..Len(ws) |-> ws[p[i]]] :
        p \in {q \in [1..Len(ws) -> 1..Len(ws)] :
                  \A i, j \in 1..Len(ws) : i # j => q[i] # q[j]}}

\* C15 as stated: the blocks returned for the filtered word list are the
\* blocks of every permutation of that list, words that share top and left
\* included.
C15_WordOrderNotSignificant ==
    (pc = "returned" /\ words # <<>>) =>
        \A ws \in C15_Permutations(words) :
            GroupIntoParagraphs(GroupIntoLines(ws)) = blocks

----------------------------------------------------------------------------
(* Cancellation of extract_text_blocks (Spec).                              *)

\* The step is one of the worker thread, not of a call of stop().
WorkerMoves == stop_pc' = stop_pc

\* C16: when the event is set as extract_text_blocks is entered, its next
\* step is the return of an empty block list: the engine is not called
\* (no run is recorded) and neither the engine's data nor the words nor the
\* lines are computed.
C16_SetOnEntryReturnsEmptyAtOnce ==
    [][(pc = "check_start" /\ stop_event /\ WorkerMoves) =>
           /\ pc' = "returned"
           /\ blocks' = <<>>
           /\ ocr_runs' = ocr_runs
           /\ UNCHANGED <<ocr_data, words, lines>>]_vars

\* A page with detections, returned from with the event set and without any
\* call of the engine.
C16_Witness ==
    /\ pc = "returned"
    /\ stop_event
    /\ image # <<>>
    /\ ocr_runs = <<>>
    /\ ocr_data = ImageToData(<<>>)
    /\ blocks = <<>>

----------------------------------------------------------------------------
(* Cancellation in the page loop (SpecWorker).                             *)

\* The block list of a call that is never cancelled, for the engine's data.
C18_CompleteBlocks == GroupIntoParagraphs(GroupIntoLines(ExtractWords(ocr_data)))

\* C18: once words have been extracted, the event no longer matters to
\* extract_text_blocks: whether it is set or not, the step that leaves line
\* grouping yields the lines of all the words, and the step that leaves
\* paragraph grouping returns the complete block list; the worker reads the
\* event next when the call has returned, and then stops without a slide.
C18_NoPreemptionAfterLastCheck ==
    [][/\ (pc = "group_lines" /\ pc' # pc) =>
              /\ pc' = "group_paragraphs"
              /\ lines' = GroupIntoLines(ExtractWords(ocr_data))
       /\ (pc = "group_paragraphs" /\ pc' # pc) =>
              /\ pc' = "returned"
              /\ blocks' = C18_CompleteBlocks
       /\ (wpc = "extract" /\ pc = "returned" /\ stop_event /\ WorkerMoves) =>
              /\ wpc' = "cancelled"
              /\ slides' = slides]_vars

\* The three blocks of a page were returned although the event was set, and
\* the worker stopped at its check after the call, before add_slide.
C18_Witness ==
    /\ wpc = "cancelled"
    /\ stop_event
    /\ ocr_runs # <<>>
    /\ Last(ocr_runs) = <<page_num, "ok">>
    /\ Len(blocks) = 3
    /\ blocks = C18_CompleteBlocks
    /\ Len(slides) = page_num - 1

\* add_slide is at work on the slide of the current page.
C17_SlideInHand ==
    /\ wpc \in {"text_boxes", "place_box", "progress"}
    /\ Len(slides) = page_num

\* The text boxes of the slide in hand are the first blocks of the page's
\* block list, in list order.
C17_PrefixPlaced ==
    C17_SlideInHand =>
        /\ Len(Last(slides)) <= Len(blocks)
        /\ Last(slides) = SubSeq(blocks, 1, Len(Last(slides)))

\* C17: add_slide reads the event on entry and before every block. With the
\* event set, both reads make it return, and the slides change only by the
\* one step that had already passed its read; a slide grows by the block that
\* follows the ones placed, so its text boxes are always a prefix of the block
\* list; with the event set on entry no slide is added.
C17_TextBoxesArePrefixOfBlocks ==
    [][/\ (stop_event /\ wpc \in {"add_slide", "text_boxes"} /\ WorkerMoves) =>
              wpc' = "progress"
       /\ (stop_event /\ wpc \notin {"new_slide", "place_box"}) =>
              slides' = slides
       /\ slides' # slides =>
              \/ wpc = "new_slide" /\ slides' = Append(slides, <<>>)
              \/ /\ wpc = "place_box"
                 /\ slides # <<>>
                 /\ Len(Last(slides)) < Len(blocks)
                 /\ slides' = [slides EXCEPT ![Len(slides)] =
                                  Append(@, blocks[Len(@) + 1])]
       /\ C17_PrefixPlaced']_vars

\* The event was seen set before the third of three blocks: the slide holds
\* the first two, and the worker has stopped.
C17_Witness ==
    /\ wpc = "cancelled"
    /\ stop_event
    /\ Len(blocks) = 3
    /\ slides # <<>>
    /\ Len(slides) = page_num - 1
    /\ Len(Last(slides)) = 2
    /\ Last(slides) = SubSeq(blocks, 1, 2)

----------------------------------------------------------------------------
(* Pages without words and pages the engine fails on (SpecWorker).         *)

\* No row of the page passes the word filter (a page without rows included).
C19_NothingSurvives(page) ==
    \A i \in 1..Len(page) : ~C10_Kept(ImageToData(page), i)

\* add_slide has made the slide of page j, or page j is behind the loop.
C19_PageDone(j) ==
    \/ j < page_num
    \/ j = page_num /\ wpc \in {"text_boxes", "progress"}

\* The engine has read the current page, none of its rows passes the filter,
\* and the check that follows the engine's return is behind.
C19_NoWordsRead ==
    /\ ocr_runs # <<>>
    /\ Last(ocr_runs) = <<page_num, "ok">>
    /\ ocr_data = ImageToData(image)
    /\ C19_NothingSurvives(image)
    /\ pc # "check_after_ocr"

\* C19: the grouping stages map the empty list to the empty list; for a page
\* without detections or without a surviving word, extract_text_blocks
\* returns (it does not raise) with no words, no lines and no blocks, no text
\* box is placed for it, and unless the run is cancelled the page gets its
\* slide, which has no text box.
C19_MissingDataIsNotAnError ==
    /\ GroupIntoLines(<<>>) = <<>>
    /\ GroupIntoParagraphs(<<>>) = <<>>
    /\ C19_NoWordsRead =>
           /\ pc = "returned"
           /\ words = <<>>
           /\ lines = <<>>
           /\ blocks = <<>>
           /\ wpc \notin {"place_box", "error"}
    /\ ~stop_event =>
           \A j \in 1..Len(images) :
               (C19_NothingSurvives(images[j]) /\ C19_PageDone(j)) =>
                   /\ Len(slides) >= j
                   /\ slides[j] = <<>>

\* A document of a page without detections and a page of dropped rows only,
\* converted and saved: two slides, both without a text box.
C19_Witness ==
    /\ wpc = "done"
    /\ saved
    /\ images = <<BlankPage, NoisePage>>
    /\ ocr_runs = << <<1, "ok">>, <<2, "ok">> >>
    /\ slides = << <<>>, <<>> >>

\* The engine failed on page j.
C20_EngineFailedOn(j) == \E r \in 1..Len(ocr_runs) : ocr_runs[r] = <<j, "error">>

\* C20: when the engine fails on a page, extract_text_blocks returns an empty
\* block list; the worker does not end in an error for it (only an exception
\* of _extract_words or of save does that); unless the run is cancelled the
\* page gets a slide without text boxes, and when the loop is over every
\* page has been given to the engine and has its slide; "done" means saved.
C20_EngineFailureIsZeroWords ==
    /\ (ocr_runs # <<>> /\ Last(ocr_runs) = <<page_num, "error">>) =>
           /\ pc = "returned"
           /\ blocks = <<>>
           /\ wpc \notin {"place_box", "error"}
    /\ (wpc = "error" /\ page_num <= Len(images)) =>
           /\ pc = "raised"
           /\ Last(ocr_runs) = <<page_num, "ok">>
    /\ ~stop_event =>
           /\ \A j \in 1..Len(images) :
                  (C20_EngineFailedOn(j) /\ C19_PageDone(j)) =>
                      /\ Len(slides) >= j
                      /\ slides[j] = <<>>
           /\ wpc \in {"final_check", "save", "done"} =>
                  /\ Len(slides) = Len(images)
                  /\ \A j \in 1..Len(images) :
                         \E r \in 1..Len(ocr_runs) : ocr_runs[r][1] = j
    /\ wpc = "done" => saved /\ Len(slides) = Len(images)

\* The engine failed on page 1 of 2: page 1 has a slide without text boxes,
\* page 2 was read and its three blocks placed, and the file was saved.
C20_Witness ==
    /\ wpc = "done"
    /\ saved
    /\ Len(images) = 2
    /\ ocr_runs = << <<1, "error">>, <<2, "ok">> >>
    /\ Len(slides) = 2
    /\ slides[1] = <<>>
    /\ Len(slides[2]) = 3

----------------------------------------------------------------------------
(* Pixel and EMU conversions (SpecGeometry).                               *)

\* The exact quotient pixels * 914400 / dpi rounded down, in integers.
C21_ExactEmu(pixels, dpi) ==
    (pixels \div dpi) * 914400 + ((pixels % dpi) * 914400) \div dpi

\* C21 as stated: px_to_emu(pixels, dpi) is the floor of the exact
\* pixels * 914400 / dpi; px_to_emu(1, 3) = 304800, px_to_emu(1, 7) = 130628.
C21_PxToEmuIsExactFloor ==
    call.fn = "px_to_emu" =>
        /\ ret.value[1] = C21_ExactEmu(call.args[1], call.args[2])
        /\ call.args = <<1, 3>> => ret.value[1] = 304800
        /\ call.args = <<1, 7>> => ret.value[1] = 130628

\* C22: at every resolution, no pixels are 0 EMU and as many pixels as the
\* resolution has dots per inch are exactly 914400 EMU.
C22_ZeroAndWholeInchExact ==
    call.fn = "px_to_emu" =>
        /\ call.args[1] = 0 => ret.value[1] = 0
        /\ call.args[1] = call.args[2] => ret.value[1] = 914400

\* One inch at 49 dpi (49 * (1.0 / 49) is below 1.0 in floats).
C22_Witness ==
    /\ call.fn = "px_to_emu"
    /\ call.args = <<49, 49>>
    /\ ret.value = <<914400>>

\* C23: calculate_slide_dimensions(w, h, dpi) is the pair of px_to_emu(w, dpi)
\* and px_to_emu(h, dpi); a 3000 x 2250 image at 300 dpi gives
\* (9144000, 6858000).
C23_SlideDimensionsConvertEachSide ==
    call.fn = "calculate_slide_dimensions" =>
        /\ Len(ret.value) = 2
        /\ ret.value[1] = px_to_emu(call.args[1], call.args[3])
        /\ ret.value[2] = px_to_emu(call.args[2], call.args[3])
        /\ call.args = <<3000, 2250, 300>> => ret.value = <<9144000, 6858000>>

\* The 10 x 7.5 inch page.
C23_Witness ==
    /\ call.fn = "calculate_slide_dimensions"
    /\ call.args = <<3000, 2250, 300>>
    /\ ret.value = <<9144000, 6858000>>

\* p * 914400 is a multiple of dpi.
C24_WholeEmu(p, dpi) == ((p % dpi) * 914400) % dpi = 0

\* C24 as stated, for the sizes whose cross products fit 31 bits: the canvas
\* (W, H) of a w x h image has |W * h - H * w| < max(w, h), and W * h = H * w
\* when w * 914400 and h * 914400 are both multiples of dpi.
C24_CanvasKeepsAspectRatio ==
    (/\ call.fn = "calculate_slide_dimensions"
     /\ call.args[1] * call.args[2] < MaxInches * call.args[3]) =>
        LET w   == call.args[1]
            h   == call.args[2]
            dpi == call.args[3]
            W   == ret.value[1]
            H   == ret.value[2]
        IN  /\ Abs(W * h - H * w) < (IF w > h THEN w ELSE h)
            /\ (C24_WholeEmu(w, dpi) /\ C24_WholeEmu(h, dpi)) => W * h = H * w

\* C25: get_aspect_ratio(w, h) raises exactly when h = 0, whatever w is; for
\* h # 0 it returns the quotient w / h.
C25_AspectRatioFailsIffHeightZero ==
    call.fn = "get_aspect_ratio" =>
        LET w == call.args[1]
            h == call.args[2]
        IN  /\ ret.raised <=> h = 0
            /\ h = 0 => ret.value = <<>>
            /\ h # 0 =>
                   /\ Len(ret.value) = 2
                   /\ ret.value[2] > 0
                   /\ ret.value[1] * h = w * ret.value[2]

\* get_aspect_ratio(3000, 0) has raised.
C25_Witness ==
    /\ call.fn = "get_aspect_ratio"
    /\ call.args = <<3000, 0>>
    /\ ret.raised

\* C30 as stated: r = emu_to_px(px_to_emu(p, dpi), dpi) is p or p - 1, and
\* is p when p * 914400 is a multiple of dpi.
C30_RoundTripLosesAtMostOnePixel ==
    [][(call.fn = "px_to_emu" /\ call'.fn = "emu_to_px") =>
           LET p   == call.args[1]
               dpi == call.args[2]
               r   == ret'.value[1]
           IN  /\ p - 1 <= r
               /\ r <= p
               /\ C24_WholeEmu(p, dpi) => r = p]_vars

\* The statuses of a sequence, as a set.
Statuses(seq) == {seq[i] : i \in DOMAIN seq}

\* C26 as stated: once stop() has set the cancellation signal while the
\* conversion's _process is running, and start() is not called again, no
\* later step of the conversion calls builder.save or publishes "done",
\* whatever the moment of the stop().  The code polls the event a last time
\* at lines 196-197, saves at line 201 and publishes "done" at line 207: a
\* stop() after the poll is not seen.
C26_StoppedConversionNeverSaves ==
    [][(stop_event /\ thread2 = "none") =>
          /\ saved' = saved
          /\ "done" \in Statuses(published') =>
                 "done" \in Statuses(published)]_vars

\* C29 as stated: a text box never sticks out of the canvas.  For a block
\* inside a page of the first page's pixel size, the box _add_text_box
\* places has left + width <= slide width and top + height <= slide height,
\* in EMU, the slide size being the one create_presentation set.
C29_TextBoxInsideCanvas ==
    [][(call.fn = "create_presentation" /\ call'.fn = "_add_text_box") =>
          /\ ret'.value[1] + ret'.value[3] <= ret.value[1]
          /\ ret'.value[2] + ret'.value[4] <= ret.value[2]]_vars

\* The statuses _process itself published: "cancelled" comes from stop().
Own(seq) == SelectSeq(seq, LAMBDA s : s # "cancelled")

\* C28: every run of _process ends, having published "busy" before any other
\* status; a run whose cancellation signal was never set has published
\* exactly one terminal status after it, "done" or "error"; "done" is there
\* only if builder.save returned, and never together with "error".
C28_BusyThenOneTerminalStatus ==
    <>[](/\ wpc \in {"done", "error", "cancelled"}
         /\ Own(published) # <<>>
         /\ Own(published)[1] = "busy"
         /\ \A i \in 2..Len(Own(published)) :
               Own(published)[i] \in {"done", "error"}
         /\ Len(Own(published)) <= 2
         /\ ~stop_event => Len(Own(published)) = 2
         /\ wpc = "error" => "error" \in Statuses(published)
         /\ "done" \in Statuses(published) =>
               (saved /\ "error" \notin Statuses(published)))

C28_Witness ==
    /\ wpc = "done"
    /\ ~stop_event
    /\ saved
    /\ published = <<"busy", "done">>

\* C27 as stated: a conversion cancelled with stop() stays cancelled when a
\* new conversion is started on the same worker.  Once start() has been
\* called again, the earlier thread adds no slide and no text box and does
\* not save, and the two threads are never inside builder.add_slide at the
\* same time.
C27_CancelledStaysCancelled ==
    [][/\ ("cancelled" \in Statuses(published) /\ thread2 # "none") =>
              (slides' = slides /\ saved' = saved)
       /\ ~(/\ wpc' \in {"add_slide", "new_slide", "text_boxes", "place_box"}
            /\ thread2' = "add_slide")]_vars

====
